---- MODULE Spec2Model ----
(***************************************************************************)
(* Model of life_expectancy/cleaning.py: the pipeline                      *)
(*   read_csv -> melt -> clean_df -> transform_df -> column projection.    *)
(*                                                                         *)
(* A Python string is a sequence of characters, each character a           *)
(* one-element name: "8", ".", ","; the character named "U+0663" is        *)
(* ARABIC-INDIC DIGIT THREE, a decimal digit that is not ASCII.            *)
(* A table is a record [columns, index, data]: the column names in order,  *)
(* the pandas index labels of the rows, and per row a function from column *)
(* name to cell.                                                           *)
(***************************************************************************)
EXTENDS Integers, Sequences, FiniteSets, TLC

VARIABLES pc, country, raw, long, cleaned, transformed, final, err,
          s, once, twice

vars == <<pc, country, raw, long, cleaned, transformed, final, err, s, once, twice>>

(* ------------------------------ bounds --------------------------------- *)
MaxRows == 2
MaxYearCols == 2
MaxStrLen == 3

(* ---------------------------- characters ------------------------------- *)
AsciiDigit == {"0", "1", "2", "3", "4", "5", "6", "7", "8", "9"}

\* what \d matches in a Python 3 str pattern: every Unicode decimal digit
UnicodeDigit == AsciiDigit \cup {"U+0663"}

DigitVal(c) ==
    CASE c = "0" -> 0 [] c = "1" -> 1 [] c = "2" -> 2 [] c = "3" -> 3
      [] c = "4" -> 4 [] c = "5" -> 5 [] c = "6" -> 6 [] c = "7" -> 7
      [] c = "8" -> 8 [] c = "9" -> 9

IsSpace(c) == c = " "

\* the characters a value string of the model is made of
Chars == {"8", "1", ".", "-", ":", "b", " ", "U+0663"}

RECURSIVE StringsOfLen(_)
StringsOfLen(n) ==
    IF n = 0 THEN {<<>>}
    ELSE {Append(t, c) : t \in StringsOfLen(n - 1), c \in Chars}

Strings == UNION {StringsOfLen(n) : n \in 0..MaxStrLen}

(* ---------------------------- clean_value ------------------------------ *)
\* the class [\d.-]: a character the substitution leaves in place
InClass(c) == c \in UnicodeDigit \cup {".", "-"}

RECURSIVE DropFirst(_)
DropFirst(value) ==
    IF value = <<>> THEN <<>>
    ELSE IF ~InClass(Head(value)) THEN Tail(value)
    ELSE <<Head(value)>> \o DropFirst(Tail(value))

\* re.sub with count=1: only the first character outside the class goes
clean_value_first_only(value) == DropFirst(value)

\* re.sub(r"[^\d.-]", "", str(value)); str() of a str is that str
clean_value(value) == SelectSeq(value, InClass)

(* --------------------------- pd.to_numeric ----------------------------- *)
NaN == [nan |-> TRUE, neg |-> FALSE, mant |-> 0, scale |-> 0]

RECURSIVE LStrip(_)
LStrip(t) == IF t # <<>> /\ IsSpace(Head(t)) THEN LStrip(Tail(t)) ELSE t

RECURSIVE RStrip(_)
RStrip(t) ==
    IF t # <<>> /\ IsSpace(t[Len(t)]) THEN RStrip(SubSeq(t, 1, Len(t) - 1)) ELSE t

RECURSIVE DigitPrefixLen(_)
DigitPrefixLen(t) ==
    IF t # <<>> /\ Head(t) \in AsciiDigit THEN 1 + DigitPrefixLen(Tail(t)) ELSE 0

RECURSIVE DigitsToNat(_)
DigitsToNat(t) ==
    IF t = <<>> THEN 0
    ELSE 10 * DigitsToNat(SubSeq(t, 1, Len(t) - 1)) + DigitVal(t[Len(t)])

\* The parse of one string: optional blanks, optional sign, ASCII digits,
\* optional period and ASCII digits, optional blanks, end of string.
\* minDigits is the number of digits the parser insists on.
NumericParse(str, minDigits) ==
    LET t == RStrip(LStrip(str))
        signed == t # <<>> /\ t[1] \in {"-", "+"}
        u == IF signed THEN Tail(t) ELSE t
        ip == DigitPrefixLen(u)
        hasDot == ip < Len(u) /\ u[ip + 1] = "."
        rest == IF hasDot THEN SubSeq(u, ip + 2, Len(u)) ELSE SubSeq(u, ip + 1, Len(u))
        fp == IF hasDot THEN DigitPrefixLen(rest) ELSE 0
        tail == SubSeq(rest, fp + 1, Len(rest))
    IN  IF ip + fp < minDigits \/ tail # <<>> THEN NaN
        ELSE [nan |-> FALSE,
              neg |-> signed /\ t[1] = "-",
              mant |-> DigitsToNat(SubSeq(u, 1, ip) \o SubSeq(rest, 1, fp)),
              scale |-> fp]

\* a parser that takes a string without any digit for zero
to_numeric_zero_digits(str) == NumericParse(str, 0)

\* pd.to_numeric(..., errors="coerce") on one string: the number
\* (-1)^neg * mant / 10^scale, or NaN when the string is not a number.
\* The strings of the model hold no exponent and no "nan"/"inf" word.
to_numeric(str) == NumericParse(str, 1)

(* ------------------------------ tables --------------------------------- *)
IdCol == "unit,sex,age,geo\\time"

\* a missing year (pd.NA) and a present one, in the Int64 column
NA == [na |-> TRUE, v |-> 0]
Int64(n) == [na |-> FALSE, v |-> n]

\* a missing split field (None) and a present one
None == [none |-> TRUE, str |-> <<>>]
Str(t) == [none |-> FALSE, str |-> t]

EmptyTable == [columns |-> <<>>, index |-> <<>>, data |-> <<>>]

Rows(df) == 1..Len(df.data)

ColumnSet(df) == {df.columns[i] : i \in 1..Len(df.columns)}

RECURSIVE SeqWithout(_, _)
SeqWithout(q, x) ==
    IF q = <<>> THEN <<>>
    ELSE IF Head(q) = x THEN SeqWithout(Tail(q), x)
    ELSE <<Head(q)>> \o SeqWithout(Tail(q), x)

\* DataFrame.assign(name=col): an existing column is overwritten in place,
\* a new one is appended after the others
Assign(df, name, col) ==
    [columns |-> IF name \in ColumnSet(df) THEN df.columns ELSE Append(df.columns, name),
     index |-> df.index,
     data |-> [i \in Rows(df) |->
                 [c \in ColumnSet(df) \cup {name} |->
                     IF c = name THEN col[i] ELSE df.data[i][c]]]]

\* DataFrame.drop(columns=[name])
Drop(df, name) ==
    [columns |-> SeqWithout(df.columns, name),
     index |-> df.index,
     data |-> [i \in Rows(df) |-> [c \in ColumnSet(df) \ {name} |-> df.data[i][c]]]]

RECURSIVE KeptPositions(_, _)
KeptPositions(mask, i) ==
    IF i > Len(mask) THEN <<>>
    ELSE (IF mask[i] THEN <<i>> ELSE <<>>) \o KeptPositions(mask, i + 1)

\* the rows a boolean mask keeps, in order, each with its index label
Filter(df, mask) ==
    LET keep == KeptPositions(mask, 1)
    IN  [columns |-> df.columns,
         index |-> [j \in 1..Len(keep) |-> df.index[keep[j]]],
         data |-> [j \in 1..Len(keep) |-> df.data[keep[j]]]]

\* df.loc[:, cols] with every name of cols a column of df
Loc(df, cols) ==
    [columns |-> cols,
     index |-> df.index,
     data |-> [i \in Rows(df) |->
                 [c \in {cols[j] : j \in 1..Len(cols)} |-> df.data[i][c]]]]

(* ------------------------------- melt ---------------------------------- *)
\* The raw wide table is [labels, rows]: the year column names in order and
\* per row its identifier and its cells, one per year column.

\* a melt that leaves out the last year column
melt_lost_column(df) ==
    LET n == Len(df.rows)
        k == IF Len(df.labels) = 0 THEN 0 ELSE Len(df.labels) - 1
    IN  [columns |-> <<IdCol, "year", "value">>,
         index |-> [j \in 1..(n * k) |-> j - 1],
         data |-> [j \in 1..(n * k) |->
                     LET c == ((j - 1) \div n) + 1
                         r == ((j - 1) % n) + 1
                     IN  [col \in {IdCol, "year", "value"} |->
                            IF col = IdCol THEN df.rows[r].id
                            ELSE IF col = "year" THEN df.labels[c]
                            ELSE df.rows[r].cells[c]]]]

\* df.melt(id_vars=[IdCol], var_name="year", value_name="value"): the value
\* columns one after the other, the rows of each in their order, a fresh index
melt(df) ==
    LET n == Len(df.rows)
        k == Len(df.labels)
    IN  [columns |-> <<IdCol, "year", "value">>,
         index |-> [j \in 1..(n * k) |-> j - 1],
         data |-> [j \in 1..(n * k) |->
                     LET c == ((j - 1) \div n) + 1
                         r == ((j - 1) % n) + 1
                     IN  [col \in {IdCol, "year", "value"} |->
                            IF col = IdCol THEN df.rows[r].id
                            ELSE IF col = "year" THEN df.labels[c]
                            ELSE df.rows[r].cells[c]]]]

(* ------------------------------ clean_df ------------------------------- *)
RECURSIVE Pow10(_)
Pow10(n) == IF n = 0 THEN 1 ELSE 10 * Pow10(n - 1)

IsNaN(x) == x.nan

\* a float that is a whole number
IsWhole(x) == x.mant % Pow10(x.scale) = 0

\* .astype("Int64") of one float of the column: NaN becomes pd.NA, a whole
\* number becomes that integer
AsInt64(x) ==
    IF IsNaN(x) THEN NA
    ELSE Int64((IF x.neg THEN -1 ELSE 1) * (x.mant \div Pow10(x.scale)))

\* .dropna(subset=["value"])
DropNa(df) == Filter(df, [i \in Rows(df) |-> ~IsNaN(df.data[i]["value"])])

\* clean_df: [err, df]. astype("Int64") raises TypeError (cannot safely cast
\* non-equivalent float64 to int64) when a year of the column is a number
\* that is not whole.
clean_df(df) ==
    LET years == [i \in Rows(df) |-> to_numeric(df.data[i]["year"])]
        values == [i \in Rows(df) |-> to_numeric(clean_value(df.data[i]["value"]))]
    IN  IF \E i \in Rows(df) : ~IsNaN(years[i]) /\ ~IsWhole(years[i])
        THEN [err |-> "TypeError", df |-> EmptyTable]
        ELSE [err |-> "none",
              df |-> DropNa(Assign(Assign(df, "year", [i \in Rows(df) |-> AsInt64(years[i])]),
                                   "value", values))]

(* ---------------------------- transform_df ---------------------------- *)
RECURSIVE SplitFrom(_, _, _)
SplitFrom(t, sep, cur) ==
    IF t = <<>> THEN <<cur>>
    ELSE IF Head(t) = sep THEN <<cur>> \o SplitFrom(Tail(t), sep, <<>>)
    ELSE SplitFrom(Tail(t), sep, Append(cur, Head(t)))

\* str.split(sep) of one string: the parts between the separators
Split(t, sep) == SplitFrom(t, sep, <<>>)

RECURSIVE MaxOf(_)
MaxOf(S) ==
    IF S = {} THEN 0
    ELSE LET x == CHOOSE y \in S : TRUE
             m == MaxOf(S \ {x})
         IN  IF x > m THEN x ELSE m

\* .str.split(",", expand=True) of the identifier column: a frame with as
\* many columns 0, 1, ... as the longest split of the column has parts (none
\* for a column without rows); a shorter row is padded with None
SplitWidth(df) == MaxOf({Len(Split(df.data[i][IdCol], ",")) : i \in Rows(df)})

SplitField(df, i, j) ==
    LET parts == Split(df.data[i][IdCol], ",")
    IN  IF j <= Len(parts) THEN Str(parts[j]) ELSE None

QueryPrefix == <<"r", "e", "g", "i", "o", "n", " ", "=", "=", " ", "\"">>

OrKeyword == <<" ", "o", "r", " ">>

\* f'region == "{country}"'
QueryText(code) == QueryPrefix \o code \o <<"\"">>

StartsWithAt(e, i, p) ==
    /\ i + Len(p) - 1 <= Len(e)
    /\ SubSeq(e, i, i + Len(p) - 1) = p

\* The body of a string literal from position i on, up to its closing quote:
\* a backslash takes the next character with it (\" is a quote, \\ a
\* backslash, any other pair stays as it is); without a closing quote the
\* literal is not terminated.
RECURSIVE ScanLiteral(_, _, _)
ScanLiteral(e, i, acc) ==
    IF i > Len(e) THEN [ok |-> FALSE, val |-> <<>>, next |-> i]
    ELSE IF e[i] = "\"" THEN [ok |-> TRUE, val |-> acc, next |-> i + 1]
    ELSE IF e[i] = "\\" THEN
        IF i + 1 > Len(e) THEN [ok |-> FALSE, val |-> <<>>, next |-> i]
        ELSE IF e[i + 1] \in {"\"", "\\"} THEN ScanLiteral(e, i + 2, Append(acc, e[i + 1]))
        ELSE ScanLiteral(e, i + 2, acc \o <<e[i], e[i + 1]>>)
    ELSE ScanLiteral(e, i + 1, Append(acc, e[i]))

\* The expression as the query parser reads it: comparisons of region with a
\* string literal, joined by "or". [error, lits]: the literals compared with,
\* or a syntax error. The codes of the model give no other expression.
RECURSIVE ParseQuery(_, _, _)
ParseQuery(e, i, lits) ==
    IF ~StartsWithAt(e, i, QueryPrefix) THEN [error |-> TRUE, lits |-> <<>>]
    ELSE LET lit == ScanLiteral(e, i + Len(QueryPrefix), <<>>)
         IN  IF ~lit.ok THEN [error |-> TRUE, lits |-> <<>>]
             ELSE IF lit.next > Len(e) THEN [error |-> FALSE, lits |-> Append(lits, lit.val)]
             ELSE IF StartsWithAt(e, lit.next, OrKeyword)
                  THEN ParseQuery(e, lit.next + Len(OrKeyword), Append(lits, lit.val))
             ELSE [error |-> TRUE, lits |-> <<>>]

\* .query(text): [err, df]; the rows whose region is one of the compared
\* literals (None equals no literal)
Query(df, text) ==
    LET q == ParseQuery(text, 1, <<>>)
    IN  IF q.error THEN [err |-> "SyntaxError", df |-> EmptyTable]
        ELSE [err |-> "none",
              df |-> Filter(df, [i \in Rows(df) |->
                        /\ ~df.data[i]["region"].none
                        /\ \E l \in 1..Len(q.lits) : df.data[i]["region"].str = q.lits[l]])]

\* transform_df: [err, df]. Taking column j of the split frame raises
\* KeyError when the frame has fewer than j + 1 columns.
transform_df(df, code) ==
    IF SplitWidth(df) < 4 THEN [err |-> "KeyError", df |-> EmptyTable]
    ELSE LET a1 == Assign(df, "unit", [i \in Rows(df) |-> SplitField(df, i, 1)])
             a2 == Assign(a1, "sex", [i \in Rows(df) |-> SplitField(df, i, 2)])
             a3 == Assign(a2, "age", [i \in Rows(df) |-> SplitField(df, i, 3)])
             a4 == Assign(a3, "region", [i \in Rows(df) |-> SplitField(df, i, 4)])
         IN  Query(Drop(a4, IdCol), QueryText(code))

FinalColumns == <<"unit", "sex", "age", "region", "year", "value">>

(* ------------------------------ inputs --------------------------------- *)
S_PT == <<"Y", ",", "F", ",", "A", ",", "P", "T">>
S_ES == <<"Y", ",", "F", ",", "A", ",", "E", "S">>
S_Short == <<"Y", ",", "F", ",", "A">>
S_Quote == <<"Y", ",", "F", ",", "A", ",", "P", "\"", "T">>

Identifiers == {S_PT, S_ES, S_Short, S_Quote}

C_PT == <<"P", "T">>
C_ES == <<"E", "S">>
C_Lower == <<"p", "t">>
C_Quote == <<"P", "\"", "T">>
C_Inject == <<"P", "T", "\"", " ", "o", "r", " ", "r", "e", "g", "i", "o", "n",
              " ", "=", "=", " ", "\"", "E", "S">>

Countries == {C_PT, C_ES, C_Lower, C_Quote, C_Inject}

Y_2020 == <<"2", "0", "2", "0">>
Y_Frac == <<"2", "0", "2", "0", ".", "5">>
Y_Word == <<"x">>

YearLabels == {Y_2020, Y_Frac, Y_Word}

V_Flag == <<"8", "1", ".", "2", " ", "b">>
V_Colon == <<":">>
V_Minus == <<"-">>
V_Plain == <<"8">>
V_Arabic == <<"1", "U+0663">>

ValueCells == {V_Flag, V_Colon, V_Minus, V_Plain, V_Arabic}

SeqsUpTo(S, n) == UNION {[1..m -> S] : m \in 0..n}

Distinct(q) == \A i, j \in 1..Len(q) : i # j => q[i] # q[j]

\* the raw wide tables with the given identifiers and cells: distinct year
\* labels (read_csv renames a repeated header) and one cell per label
RawTables(ids, cells) ==
    UNION {[labels : {labels}, rows : SeqsUpTo([id : ids, cells : [1..Len(labels) -> cells]], MaxRows)] :
           labels \in {q \in SeqsUpTo(YearLabels, MaxYearCols) : Distinct(q)}}

TableOf(rows) ==
    [columns |-> <<IdCol, "year", "value">>,
     index |-> [i \in 1..Len(rows) |-> i - 1],
     data |-> [i \in 1..Len(rows) |->
                 [c \in {IdCol, "year", "value"} |->
                    IF c = IdCol THEN rows[i].id
                    ELSE IF c = "year" THEN rows[i].year ELSE rows[i].value]]]

\* the long tables melt can hand to clean_df
LongTables ==
    {TableOf(rows) : rows \in SeqsUpTo([id : {S_PT}, year : YearLabels, value : ValueCells], MaxRows)}

\* the tables clean_df can hand to transform_df
CleanedTables ==
    {TableOf(rows) :
        rows \in SeqsUpTo([id : Identifiers, year : {NA, Int64(2020)},
                           value : {to_numeric(V_Plain)}], MaxRows)}

(* ----------------------------- clean_data ------------------------------ *)
Init ==
    /\ pc = "start"
    /\ country \in Countries
    /\ raw = <<>> /\ long = <<>> /\ cleaned = <<>> /\ transformed = <<>> /\ final = <<>>
    /\ err = "none"
    /\ s = <<>> /\ once = <<>> /\ twice = <<>>

\* pd.read_csv(input_file, sep="\t"): the file holds any raw wide table
ReadCsv ==
    /\ pc = "start"
    /\ raw' \in RawTables({S_PT, S_ES, S_Short}, {V_Flag, V_Colon, V_Minus})
    /\ pc' = "read"
    /\ UNCHANGED <<country, long, cleaned, transformed, final, err, s, once, twice>>

Melt ==
    /\ pc = "read"
    /\ long' = melt(raw)
    /\ pc' = "melted"
    /\ UNCHANGED <<country, raw, cleaned, transformed, final, err, s, once, twice>>

CleanDf ==
    /\ pc = "melted"
    /\ LET r == clean_df(long)
       IN  /\ err' = r.err
           /\ cleaned' = r.df
           /\ pc' = IF r.err = "none" THEN "cleaned" ELSE "raised"
    /\ UNCHANGED <<country, raw, long, transformed, final, s, once, twice>>

TransformDf ==
    /\ pc = "cleaned"
    /\ LET r == transform_df(cleaned, country)
       IN  /\ err' = r.err
           /\ transformed' = r.df
           /\ pc' = IF r.err = "none" THEN "transformed" ELSE "raised"
    /\ UNCHANGED <<country, raw, long, cleaned, final, s, once, twice>>

\* df.loc[:, [...]] and to_csv: final is the table written
ToCsv ==
    /\ pc = "transformed"
    /\ final' = Loc(transformed, FinalColumns)
    /\ pc' = "done"
    /\ UNCHANGED <<country, raw, long, cleaned, transformed, err, s, once, twice>>

Next == ReadCsv \/ Melt \/ CleanDf \/ TransformDf \/ ToCsv

Spec == Init /\ [][Next]_vars

(* ------------------------------ melt alone ----------------------------- *)
InitMelt ==
    /\ pc = "read"
    /\ raw \in RawTables({S_PT, S_ES}, {V_Flag, V_Colon})
    /\ country = C_PT
    /\ long = <<>> /\ cleaned = <<>> /\ transformed = <<>> /\ final = <<>>
    /\ err = "none"
    /\ s = <<>> /\ once = <<>> /\ twice = <<>>

SpecMelt == InitMelt /\ [][Melt]_vars

(* ---------------------------- clean_df alone --------------------------- *)
InitClean ==
    /\ pc = "melted"
    /\ long \in LongTables
    /\ country = C_PT
    /\ raw = <<>> /\ cleaned = <<>> /\ transformed = <<>> /\ final = <<>>
    /\ err = "none"
    /\ s = <<>> /\ once = <<>> /\ twice = <<>>

SpecClean == InitClean /\ [][CleanDf]_vars

(* -------------------------- transform_df alone ------------------------- *)
InitTransform ==
    /\ pc = "cleaned"
    /\ cleaned \in CleanedTables
    /\ country \in Countries
    /\ raw = <<>> /\ long = <<>> /\ transformed = <<>> /\ final = <<>>
    /\ err = "none"
    /\ s = <<>> /\ once = <<>> /\ twice = <<>>

SpecTransform == InitTransform /\ [][TransformDf]_vars

(* ------------------------- clean_value alone --------------------------- *)
InitValue ==
    /\ pc = "value"
    /\ s \in Strings
    /\ once = <<>> /\ twice = <<>>
    /\ country = <<>> /\ err = "none"
    /\ raw = <<>> /\ long = <<>> /\ cleaned = <<>> /\ transformed = <<>> /\ final = <<>>

CleanOnce ==
    /\ pc = "value"
    /\ once' = clean_value(s)
    /\ pc' = "once"
    /\ UNCHANGED <<country, raw, long, cleaned, transformed, final, err, s, twice>>

CleanTwice ==
    /\ pc = "once"
    /\ twice' = clean_value(once)
    /\ pc' = "twice"
    /\ UNCHANGED <<country, raw, long, cleaned, transformed, final, err, s, once>>

NextValue == CleanOnce \/ CleanTwice

SpecValue == InitValue /\ [][NextValue]_vars

(* ------------------------------ claims --------------------------------- *)
IndexSet(df) == {df.index[j] : j \in 1..Len(df.index)}

\* a code without a quote or a backslash
PlainCode(code) == \A i \in 1..Len(code) : code[i] \notin {"\"", "\\"}

\* transform_df has returned or raised
TransformActed ==
    \/ pc \in {"transformed", "done"}
    \/ pc = "raised" /\ err \in {"KeyError", "SyntaxError"}

\* the fourth comma-separated field of row i of the cleaned table is the code
RegionIs(i, code) ==
    LET parts == Split(cleaned.data[i][IdCol], ",")
    IN  Len(parts) >= 4 /\ parts[4] = code

\* C1: every row transform_df returns has a region equal, character for
\* character, to the country code it was called with, whatever the code.
RegionFilterSound ==
    pc = "transformed" =>
        \A j \in Rows(transformed) :
            /\ ~transformed.data[j]["region"].none
            /\ transformed.data[j]["region"].str = country

\* C2: every row of the cleaned table whose fourth identifier field is the
\* country code is in the output of transform_df exactly once, with its year
\* and its value unchanged.
RegionFilterComplete ==
    TransformActed =>
        \A i \in Rows(cleaned) :
            RegionIs(i, country) =>
                Cardinality({j \in Rows(transformed) :
                    /\ transformed.index[j] = cleaned.index[i]
                    /\ transformed.data[j]["year"] = cleaned.data[i]["year"]
                    /\ transformed.data[j]["value"] = cleaned.data[i]["value"]}) = 1

\* the value-cleaning filter as specified: ASCII digits, period, minus stay
AsciiAllowed(c) == c \in AsciiDigit \cup {".", "-"}

\* C3: no row clean_df returns has a missing value, and a row of the long
\* table is kept exactly when its value string, with every character other
\* than an ASCII digit, a period or a minus sign removed, parses as a number.
DropInvariant ==
    pc = "cleaned" =>
        /\ \A j \in Rows(cleaned) : ~IsNaN(cleaned.data[j]["value"])
        /\ \A i \in Rows(long) :
              long.index[i] \in IndexSet(cleaned)
                  <=> ~IsNaN(to_numeric(SelectSeq(long.data[i]["value"], AsciiAllowed)))

\* C4: a row whose value string is empty after stripping, or a minus sign
\* alone, is a parse failure and is not in the cleaned table, so it never
\* survives as a zero.
NonNumericDropped ==
    pc \in {"cleaned", "raised"} =>
        \A i \in Rows(long) :
            clean_value(long.data[i]["value"]) \in {<<>>, <<"-">>} =>
                /\ IsNaN(to_numeric(clean_value(long.data[i]["value"])))
                /\ long.index[i] \notin IndexSet(cleaned)

NonNumericDroppedWitness ==
    /\ pc = "cleaned"
    /\ Len(long.data) = 2
    /\ long.data[1]["value"] = V_Minus
    /\ long.data[2]["value"] = V_Flag
    /\ cleaned.index = <<1>>

\* the year string is a whole number
YearIsInteger(str) == ~IsNaN(to_numeric(str)) /\ IsWhole(to_numeric(str))

\* C5: clean_df never raises, and a row whose year string is not an integer
\* but whose value is a number is kept, with a missing year.
YearFailureKeepsRow ==
    pc \in {"cleaned", "raised"} =>
        /\ err = "none"
        /\ \A i \in Rows(long) :
              (/\ ~YearIsInteger(long.data[i]["year"])
               /\ ~IsNaN(to_numeric(clean_value(long.data[i]["value"]))))
              => \E j \in Rows(cleaned) :
                    /\ cleaned.index[j] = long.index[i]
                    /\ cleaned.data[j]["year"] = NA

\* C6: transform_df completes on every cleaned table, also on one in which
\* no identifier has four parts, and a row with fewer than four parts is not
\* in its output. Stated for the codes without a quote or a backslash.
ShortIdentifiersHandled ==
    (TransformActed /\ PlainCode(country)) =>
        /\ err = "none"
        /\ transformed.columns = <<"year", "value", "unit", "sex", "age", "region">>
        /\ \A i \in Rows(cleaned) :
              Len(Split(cleaned.data[i][IdCol], ",")) < 4
                  => cleaned.index[i] \notin IndexSet(transformed)

\* clean_data has gone through the transformer: it wrote the file, or
\* transform_df raised
PipelineEnded == pc = "done" \/ (pc = "raised" /\ err \in {"KeyError", "SyntaxError"})

\* C7: when no row of the cleaned table has the country code as its region,
\* an empty cleaned table included, clean_data ends without raising, with an
\* empty table of the columns unit, sex, age, region, year, value. Stated for
\* the codes without a quote or a backslash.
EmptyResultNotError ==
    (/\ PipelineEnded
     /\ PlainCode(country)
     /\ \A i \in Rows(cleaned) : ~RegionIs(i, country))
    => /\ pc = "done"
       /\ final.columns = FinalColumns
       /\ final.data = <<>>

\* the cell of raw row r under year column c, as a row of the long table
LongRow(r, c) ==
    [col \in {IdCol, "year", "value"} |->
        IF col = IdCol THEN raw.rows[r].id
        ELSE IF col = "year" THEN raw.labels[c]
        ELSE raw.rows[r].cells[c]]

\* C8: the melted table of n rows and k year columns has n*k rows and the
\* three columns identifier, year, value, and every (row, year column) cell
\* is in it as often as it is in the raw table: nothing lost, nothing merged.
MeltPreservesCells ==
    pc = "melted" =>
        LET n == Len(raw.rows)
            k == Len(raw.labels)
        IN  /\ Len(long.data) = n * k
            /\ long.columns = <<IdCol, "year", "value">>
            /\ \A j \in Rows(long) : DOMAIN long.data[j] = {IdCol, "year", "value"}
            /\ \A r \in 1..n, c \in 1..k :
                  Cardinality({j \in Rows(long) : long.data[j] = LongRow(r, c)})
                      = Cardinality({q \in 1..n : LongRow(q, c) = LongRow(r, c)})

MeltPreservesCellsWitness ==
    /\ pc = "melted"
    /\ Len(raw.rows) = 2
    /\ Len(raw.labels) = 2
    /\ raw.rows[1] = raw.rows[2]
    /\ Len(long.data) = 4

\* C9: every character of clean_value's result is an ASCII digit, a period
\* or a minus sign, and the result is the input without its other characters.
CleanValueAsciiOnly ==
    pc \in {"once", "twice"} =>
        /\ \A i \in 1..Len(once) : AsciiAllowed(once[i])
        /\ once = SelectSeq(s, AsciiAllowed)

\* C10: cleaning a cleaned string changes nothing:
\* clean_value(clean_value(s)) = clean_value(s).
CleanValueIdempotent == pc = "twice" => twice = once

CleanValueIdempotentWitness ==
    /\ pc = "twice"
    /\ s = <<"8", " ", "b">>
    /\ once = <<"8">>
    /\ twice = <<"8">>

====
